---- MODULE Spec2Model ----
(***************************************************************************)
(* r.green.hydro.recommended: the command sequencer of                      *)
(* src/grass7/raster/r.green/r.green.hydro/r.green.hydro.recommended/       *)
(* r.green.hydro.recommended.py, as a state machine.                        *)
(*                                                                          *)
(* One action per statement group of main() that issues a call to the GIS   *)
(* engine.  The engine is a recording double: every call is appended to     *)
(* `calls`, a layer-creating call ends in one of three outcomes (it         *)
(* succeeds, it fails before writing its output, it fails after writing     *)
(* it), and a failed call is fatal to the run (spec.md, section 7).         *)
(* Option values are text, as the option parser delivers them: numeric      *)
(* text is a sequence of characters, layer names are strings.               *)
(***************************************************************************)
EXTENDS Integers, Sequences, FiniteSets, TLC

VARIABLES
    options,            \* the parsed options (text values), fixed per run
    flags,              \* the parsed flags d and c
    env_overwrite,      \* the process-wide overwrite setting
    npoints,            \* number of points in the viewpoint vector
    pc,                 \* position of main()
    heap,               \* the list objects: name of object -> its content
    atexit,             \* the registered exit handlers
    OVW,                \* local OVW of main
    DEBUG,              \* local DEBUG of main
    river,              \* local river of main (rebound by the overlays)
    area,               \* local area of main (rebound by the buffer step)
    discharge_current,  \* local discharge_current of main
    string,             \* local string of main: the terms of the sum
    i,                  \* loop index of the viewpoint loop
    info_old,           \* local info_old: the region query's text values
    region,             \* the engine's active region
    rasters,            \* raster layers existing in the database
    vectors,            \* vector layers existing in the database
    calls,              \* every call issued to the engine, in order
    exitcode,           \* -1 while running, then the process's exit code
    writtenRast,        \* history: rasters written by this run
    writtenVect,        \* history: vectors written by this run
    region_before,      \* history: the region when it was captured
    entry,              \* history: the region and the layers at entry
    restored            \* history: set_old_region has run

vars == <<options, flags, env_overwrite, npoints, pc, heap, atexit, OVW, DEBUG,
          river, area, discharge_current, string, i, info_old, region,
          rasters, vectors, calls, exitcode, writtenRast, writtenVect,
          region_before, restored, entry>>

(***************************************************************************)
(* Bounds of the model.                                                    *)
(***************************************************************************)
MaxPoints == 2

(***************************************************************************)
(* Text and numbers.                                                       *)
(***************************************************************************)
Digits == <<"0", "1", "2", "3", "4", "5", "6", "7", "8", "9">>

DigitVal(c) == (CHOOSE k \in 1..Len(Digits) : Digits[k] = c) - 1

RECURSIVE ParseNat(_)
ParseNat(t) ==
    IF Len(t) = 0 THEN 0
    ELSE 10 * ParseNat(SubSeq(t, 1, Len(t) - 1)) + DigitVal(t[Len(t)])

\* Python's int() of a text: an optional sign, then decimal digits.
ParseInt(t) == IF t[1] = "-" THEN 0 - ParseNat(Tail(t)) ELSE ParseNat(t)

RECURSIVE NatText(_)
NatText(n) ==
    IF n < 10 THEN <<Digits[n + 1]>>
    ELSE NatText(n \div 10) \o <<Digits[(n % 10) + 1]>>

\* The engine's printing of a number.
NumText(n) == IF n < 0 THEN <<"-">> \o NatText(0 - n) ELSE NatText(n)

\* Python's truth value of a text: empty is false, anything else is true
\* (for a layer name, and for numeric text kept as characters).
Truthy(s) == s # ""

TruthyText(t) == Len(t) > 0

\* Python's == between a text and an integer: never equal.
TextEqualsInt(t, n) == FALSE

Range(s) == {s[k] : k \in 1..Len(s)}

(***************************************************************************)
(* The region.                                                             *)
(***************************************************************************)
RegionFields == {"rows", "cols", "n", "s", "e", "w", "nsres", "ewres"}

\* g.region -pg / -m through parse_command: every value as text.
RegionQuery(r) == [f \in RegionFields |-> NumText(r[f])]

\* g.region res=...: both resolutions set, rows and columns follow.
RegionSetRes(r, res) ==
    [r EXCEPT !.nsres = ParseInt(res), !.ewres = ParseInt(res),
              !.rows = (r.n - r.s) \div ParseInt(res),
              !.cols = (r.e - r.w) \div ParseInt(res)]

\* g.region with named settings: each given field is set, the others stay.
RegionSetFields(r, args) ==
    [f \in RegionFields |->
        IF f \in DOMAIN args THEN ParseInt(args[f]) ELSE r[f]]

\* The elevation raster's grid (g.region raster=dtm).
DemRegion ==
    [rows |-> 20, cols |-> 10, n |-> 1000, s |-> 0, e |-> 500, w |-> 0,
     nsres |-> 50, ewres |-> 50]

\* The regions a run may find at entry; the last has the zero north-south
\* resolution the region guard of main() tests for.
InitialRegions ==
    { DemRegion,
      [rows |-> 4, cols |-> 5, n |-> 1000, s |-> 0, e |-> 500, w |-> 0,
       nsres |-> 250, ewres |-> 100],
      [rows |-> 0, cols |-> 10, n |-> 1000, s |-> 0, e |-> 500, w |-> 0,
       nsres |-> 0, ewres |-> 50] }

(***************************************************************************)
(* The inputs of a run.                                                    *)
(***************************************************************************)
OptionSets ==
    [elevation : {"dem"},
     river : {"streams"},
     discharge_current : {"q_cur"},
     discharge_natural : {"", "q_nat"},
     mfd : {"", "q_mfd"},
     len_plant : {"100"},
     len_min : {"10"},
     distance : {"0.5"},
     output_plant : {"plants"},
     output_point : {"intakes"},
     area : {"", "park"},
     buff : {<<"0">>, <<"5", "0">>},
     efficiency : {"1"},
     points_view : {"", "viewpts"},
     visibility_resolution : {<<"2", "5", "0">>},
     output_vis : {"", "seen"},
     n_points : {<<"0">>, <<"2">>, <<"-", "1">>},
     p_min : {"10.0"},
     percentage : {"20.00"}]

FlagSets == [d : BOOLEAN, c : BOOLEAN]

\* The layers the user's options name exist before the run.
InputRasters(o) ==
    {o.elevation, o.discharge_current, o.discharge_natural, o.mfd} \ {""}

InputVectors(o) == {o.river, o.area, o.points_view} \ {""}

\* Rasters of the database that are no input of the run: none, or a raster
\* of the user's that happens to be called final_vis.
OtherRasters == {{}, {"final_vis"}}

\* The list objects of the program: the module-level TMPRAST and the two
\* lists main() creates.
NewLists ==
    [x \in {"module.TMPRAST", "main.TMPRAST", "main.TMPVECT"} |-> <<>>]

Init ==
    /\ options \in OptionSets
    /\ flags \in FlagSets
    /\ env_overwrite \in BOOLEAN
    /\ npoints \in 0..MaxPoints
    \* options that main() never reads in a run keep their default
    /\ (options.points_view = "" =>
           npoints = 0 /\ options.n_points = <<"0">> /\ options.output_vis = "")
    /\ (options.area = "" => options.buff = <<"0">>)
    /\ pc = "start"
    /\ heap = NewLists
    /\ atexit = <<>>
    /\ OVW = FALSE
    /\ DEBUG = FALSE
    /\ river = ""
    /\ area = ""
    /\ discharge_current = ""
    /\ string = <<>>
    /\ i = 0
    /\ info_old = RegionQuery(DemRegion)
    /\ region \in InitialRegions
    /\ \E other \in OtherRasters : rasters = InputRasters(options) \cup other
    /\ vectors = InputVectors(options)
    /\ calls = <<>>
    /\ exitcode = -1
    /\ writtenRast = {}
    /\ writtenVect = {}
    /\ region_before = DemRegion
    /\ restored = FALSE
    /\ entry = [region |-> region, rasters |-> rasters, vectors |-> vectors]

(***************************************************************************)
(* The engine double.                                                      *)
(***************************************************************************)
Call(module, fl, args) == [module |-> module, flags |-> fl, args |-> args]

\* How a layer-creating call can end.
Outcomes == {"ok", "fail", "fail_written"}

\* A call may write `name` only if it does not exist or overwrite is given.
MayWrite(existing, name, overwrite) == overwrite \/ name \notin existing

\* No layer has the empty name: a call asked to write it can only fail.
Possible(existing, name, overwrite) ==
    {oc \in Outcomes :
        oc = "fail" \/ (name # "" /\ MayWrite(existing, name, overwrite))}

Written(existing, name, oc) ==
    IF oc = "fail" THEN existing ELSE existing \cup {name}

\* The overwrite setting a call runs with: run_command adds --overwrite for
\* overwrite=True and nothing for overwrite=False or no overwrite argument,
\* and the called module also obeys the process-wide setting it inherits.
EffectiveOverwrite(c) ==
    env_overwrite \/ ("overwrite" \in DOMAIN c.args /\ c.args.overwrite)

\* list.append
Append1(h, obj, name) == [h EXCEPT ![obj] = Append(@, name)]

\* A failed call is fatal: control leaves main() for the exit handlers.
Raise == pc' = "exit" /\ exitcode' = 1

(***************************************************************************)
(* main(): start, region guard, exclusion by area.                         *)
(***************************************************************************)
\* Variant: the module-level TMPRAST is registered instead of main's list.
RegisteredHandlerModuleList(debug) ==
    [func |-> "cleanup", rast |-> "module.TMPRAST", vect |-> "main.TMPVECT",
     debug |-> debug]

\* atexit.register(cleanup, rast=TMPRAST, vect=TMPVECT, debug=DEBUG): the two
\* lists are passed as objects, DEBUG as the value it has at this line.
RegisteredHandler(debug) ==
    [func |-> "cleanup", rast |-> "main.TMPRAST", vect |-> "main.TMPVECT",
     debug |-> debug]

\* Variant: the natural-discharge test comes first.
DischargeModeNaturalFirst(mfd, natural) ==
    IF natural # "" THEN "natural"
    ELSE IF mfd # "" THEN "mfd"
    ELSE "none"

\* Where main() goes after the exclusion steps: the discharge adjustment.
DischargeMode(mfd, natural) ==
    IF Truthy(mfd) THEN "mfd"
    ELSE IF Truthy(natural) THEN "natural"
    ELSE "none"

AfterExclusion ==
    IF DischargeMode(options.mfd, options.discharge_natural) = "none"
    THEN "optimal" ELSE "discharge"

AfterArea == IF Truthy(options.points_view) THEN "save_region" ELSE AfterExclusion

\* if area: if buff: ...
BufferWanted(a, b) == Truthy(a) /\ TruthyText(b)

\* Variant: the test of the area option is missing.
AfterRegionGuardNoAreaTest ==
    IF TruthyText(options.buff) THEN "buffer" ELSE "overlay1"

AfterRegionGuard ==
    IF ~Truthy(options.area) THEN AfterArea
    ELSE IF BufferWanted(options.area, options.buff) THEN "buffer"
    ELSE "overlay1"

Start ==
    /\ pc = "start"
    /\ atexit' = Append(atexit, RegisteredHandler(FALSE))
    /\ OVW' = env_overwrite
    /\ river' = options.river
    /\ discharge_current' = options.discharge_current
    /\ area' = options.area
    /\ DEBUG' = flags.d
    /\ pc' = "region_guard"
    /\ UNCHANGED <<entry, options, flags, env_overwrite, npoints, heap, string, i,
                   info_old, region, rasters, vectors, calls, exitcode,
                   writtenRast, writtenVect, region_before, restored>>

\* info['nsres'] == 0 or info['ewres'] == 0, info holding text.
RegionDegenerate(info) ==
    TextEqualsInt(info.nsres, 0) \/ TextEqualsInt(info.ewres, 0)

RegionGuard ==
    /\ pc = "region_guard"
    /\ LET info == RegionQuery(region)
           query == Call("g.region", "m", [parse |-> TRUE])
           reset == Call("g.region", "", [raster |-> options.elevation])
       IN IF RegionDegenerate(info)
          THEN /\ calls' = calls \o <<query, reset>>
               /\ region' = DemRegion
          ELSE /\ calls' = Append(calls, query)
               /\ region' = region
    /\ pc' = AfterRegionGuard
    /\ UNCHANGED <<entry, options, flags, env_overwrite, npoints, heap, atexit, OVW,
                   DEBUG, river, area, discharge_current, string, i, info_old,
                   rasters, vectors, exitcode, writtenRast, writtenVect,
                   region_before, restored>>

Buffer ==
    /\ pc = "buffer"
    /\ calls' = Append(calls,
           Call("v.buffer", "",
                [input |-> area, output |-> "buff_area",
                 distance |-> options.buff, overwrite |-> OVW]))
    /\ \E oc \in Possible(vectors, "buff_area", OVW) :
        /\ vectors' = Written(vectors, "buff_area", oc)
        /\ writtenVect' = Written(writtenVect, "buff_area", oc)
        /\ IF oc = "ok"
           THEN /\ area' = "buff_area"
                /\ heap' = Append1(heap, "main.TMPVECT", "buff_area")
                /\ pc' = "overlay1"
                /\ UNCHANGED exitcode
           ELSE /\ Raise
                /\ UNCHANGED <<area, heap>>
    /\ UNCHANGED <<entry, options, flags, env_overwrite, npoints, atexit, OVW, DEBUG,
                   river, discharge_current, string, i, info_old, region,
                   rasters, writtenRast, region_before, restored>>

\* Variant: the first input is always the river option.
OverlayCallOfInputRiver(ainput, binput, output, overwrite) ==
    Call("v.overlay", "t",
         [ainput |-> options.river, binput |-> binput, operator |-> "not",
          output |-> output, overwrite |-> overwrite])

\* v.overlay -t ainput=... binput=... operator=not output=...
OverlayCall(ainput, binput, output, overwrite) ==
    Call("v.overlay", "t",
         [ainput |-> ainput, binput |-> binput, operator |-> "not",
          output |-> output, overwrite |-> overwrite])

Overlay1 ==
    /\ pc = "overlay1"
    /\ calls' = Append(calls, OverlayCall(river, area, "tmp1_river", OVW))
    /\ \E oc \in Possible(vectors, "tmp1_river", OVW) :
        /\ vectors' = Written(vectors, "tmp1_river", oc)
        /\ writtenVect' = Written(writtenVect, "tmp1_river", oc)
        /\ IF oc = "ok"
           THEN /\ river' = "tmp1_river"
                /\ heap' = Append1(heap, "main.TMPVECT", "tmp1_river")
                /\ pc' = AfterArea
                /\ UNCHANGED exitcode
           ELSE /\ Raise
                /\ UNCHANGED <<river, heap>>
    /\ UNCHANGED <<entry, options, flags, env_overwrite, npoints, atexit, OVW, DEBUG,
                   area, discharge_current, string, i, info_old, region,
                   rasters, writtenRast, region_before, restored>>

(***************************************************************************)
(* main(): exclusion by visibility.                                        *)
(***************************************************************************)
ViewshedMemory == 1000

ViewshedMaxDistance == 4000

\* set_new_region(new_region): g.region res=new_region
set_new_region(r, new_region) == RegionSetRes(r, new_region)

\* Variant: the two resolutions are not passed back.
OldRegionArgsNoRes(info) ==
    [rows |-> info.rows, e |-> info.e, cols |-> info.cols, n |-> info.n,
     s |-> info.s, w |-> info.w]

\* set_old_region(info): the settings passed to g.region
OldRegionArgs(info) ==
    [rows |-> info.rows, e |-> info.e, cols |-> info.cols, n |-> info.n,
     s |-> info.s, w |-> info.w, ewres |-> info.ewres, nsres |-> info.nsres]

set_old_region(r, info) == RegionSetFields(r, OldRegionArgs(info))

SaveRegion ==
    /\ pc = "save_region"
    /\ info_old' = RegionQuery(region)
    /\ region_before' = region
    /\ calls' = Append(calls, Call("g.region", "pg", [parse |-> TRUE]))
    /\ pc' = "set_new_region"
    /\ UNCHANGED <<entry, options, flags, env_overwrite, npoints, heap, atexit, OVW,
                   DEBUG, river, area, discharge_current, string, i, region,
                   rasters, vectors, exitcode, writtenRast, writtenVect,
                   restored>>

SetNewRegion ==
    /\ pc = "set_new_region"
    /\ region' = set_new_region(region, options.visibility_resolution)
    /\ calls' = Append(calls,
           Call("g.region", "", [res |-> options.visibility_resolution]))
    /\ pc' = "open_vec"
    /\ UNCHANGED <<entry, options, flags, env_overwrite, npoints, heap, atexit, OVW,
                   DEBUG, river, area, discharge_current, string, i, info_old,
                   rasters, vectors, exitcode, writtenRast, writtenVect,
                   region_before, restored>>

\* vec = VectorTopo(pl, mapset=mset, mode='r'); vec.open("r"); string = '0'
OpenVec ==
    /\ pc = "open_vec"
    /\ \E ok \in BOOLEAN :
        IF ok
        THEN /\ string' = <<"0">>
             /\ i' = 0
             /\ pc' = IF npoints > 0 THEN "viewshed" ELSE "mapcalc_vis"
             /\ UNCHANGED exitcode
        ELSE /\ Raise
             /\ UNCHANGED <<string, i>>
    /\ UNCHANGED <<entry, options, flags, env_overwrite, npoints, heap, atexit, OVW,
                   DEBUG, river, area, discharge_current, info_old, region,
                   rasters, vectors, calls, writtenRast, writtenVect,
                   region_before, restored>>

\* out = 'visual_%i' % i
VisualName(k) == "visual_" \o ToString(k)

Viewshed ==
    /\ pc = "viewshed"
    /\ i < npoints
    /\ LET out == VisualName(i)
       IN /\ calls' = Append(calls,
                 Call("r.viewshed", "b",
                      [input |-> options.elevation, output |-> out,
                       coordinates |-> i, overwrite |-> OVW,
                       memory |-> ViewshedMemory,
                       max_distance |-> ViewshedMaxDistance]))
          /\ \E oc \in Possible(rasters, out, OVW) :
              /\ rasters' = Written(rasters, out, oc)
              /\ writtenRast' = Written(writtenRast, out, oc)
              /\ IF oc = "ok"
                 THEN /\ heap' = Append1(heap, "main.TMPRAST", out)
                      /\ string' = Append(string, out)
                      /\ i' = i + 1
                      /\ pc' = IF i + 1 < npoints
                               THEN "viewshed" ELSE "mapcalc_vis"
                      /\ UNCHANGED exitcode
                 ELSE /\ Raise
                      /\ UNCHANGED <<heap, string, i>>
    /\ UNCHANGED <<entry, options, flags, env_overwrite, npoints, atexit, OVW, DEBUG,
                   river, area, discharge_current, info_old, region, vectors,
                   writtenVect, region_before, restored>>

\* Variant: overwrite=True whatever OVW is.
MapcalcCallOverwriteAlways(lhs, op, terms, overwrite) ==
    Call("r.mapcalc", "",
         [lhs |-> lhs, op |-> op, terms |-> terms, overwrite |-> TRUE])

\* mapcalc(formula, overwrite=OVW)
MapcalcCall(lhs, op, terms, overwrite) ==
    Call("r.mapcalc", "",
         [lhs |-> lhs, op |-> op, terms |-> terms, overwrite |-> overwrite])

\* formula = 'final_vis = %s' % string; TMPRAST.append('final_vis'); mapcalc
MapcalcVis ==
    /\ pc = "mapcalc_vis"
    /\ heap' = Append1(heap, "main.TMPRAST", "final_vis")
    /\ calls' = Append(calls, MapcalcCall("final_vis", "sum", string, OVW))
    /\ \E oc \in Possible(rasters, "final_vis", OVW) :
        /\ rasters' = Written(rasters, "final_vis", oc)
        /\ writtenRast' = Written(writtenRast, "final_vis", oc)
        /\ IF oc = "ok"
           THEN pc' = "set_old_region" /\ UNCHANGED exitcode
           ELSE Raise
    /\ UNCHANGED <<entry, options, flags, env_overwrite, npoints, atexit, OVW, DEBUG,
                   river, area, discharge_current, string, i, info_old, region,
                   vectors, writtenVect, region_before, restored>>

SetOldRegion ==
    /\ pc = "set_old_region"
    /\ region' = set_old_region(region, info_old)
    /\ calls' = Append(calls, Call("g.region", "", OldRegionArgs(info_old)))
    /\ restored' = TRUE
    /\ pc' = "r_to_vect"
    /\ UNCHANGED <<entry, options, flags, env_overwrite, npoints, heap, atexit, OVW,
                   DEBUG, river, area, discharge_current, string, i, info_old,
                   rasters, vectors, exitcode, writtenRast, writtenVect,
                   region_before>>

RToVect ==
    /\ pc = "r_to_vect"
    /\ calls' = Append(calls,
           Call("r.to.vect", "v",
                [input |-> "final_vis", output |-> "tmp_vis",
                 type |-> "area", overwrite |-> OVW]))
    /\ \E oc \in Possible(vectors, "tmp_vis", OVW) :
        /\ vectors' = Written(vectors, "tmp_vis", oc)
        /\ writtenVect' = Written(writtenVect, "tmp_vis", oc)
        /\ IF oc = "ok"
           THEN /\ heap' = Append1(heap, "main.TMPVECT", "tmp_vis")
                /\ pc' = "droprow"
                /\ UNCHANGED exitcode
           ELSE /\ Raise
                /\ UNCHANGED heap
    /\ UNCHANGED <<entry, options, flags, env_overwrite, npoints, atexit, OVW, DEBUG,
                   river, area, discharge_current, string, i, info_old, region,
                   rasters, writtenRast, region_before, restored>>

\* Variant: the test is >= 0.
WhereClauseFromZero(n_points) ==
    IF ParseInt(n_points) >= 0
    THEN [cond |-> "cat<", value |-> n_points]
    ELSE [cond |-> "cat=", value |-> <<"0">>]

\* if int(n_points) > 0: where = 'cat<%s' % (n_points) else: where = 'cat=0'
WhereClause(n_points) ==
    IF ParseInt(n_points) > 0
    THEN [cond |-> "cat<", value |-> n_points]
    ELSE [cond |-> "cat=", value |-> <<"0">>]

\* v.db.droprow writes the vector named by the output_vis option; the name
\* is not added to TMPVECT.
DropRow ==
    /\ pc = "droprow"
    /\ calls' = Append(calls,
           Call("v.db.droprow", "",
                [input |-> "tmp_vis", where |-> WhereClause(options.n_points),
                 output |-> options.output_vis, overwrite |-> OVW]))
    /\ \E oc \in Possible(vectors, options.output_vis, OVW) :
        /\ vectors' = Written(vectors, options.output_vis, oc)
        /\ writtenVect' = Written(writtenVect, options.output_vis, oc)
        /\ IF oc = "ok"
           THEN pc' = "overlay2" /\ UNCHANGED exitcode
           ELSE Raise
    /\ UNCHANGED <<entry, options, flags, env_overwrite, npoints, heap, atexit, OVW,
                   DEBUG, river, area, discharge_current, string, i, info_old,
                   region, rasters, writtenRast, region_before, restored>>

Overlay2 ==
    /\ pc = "overlay2"
    /\ calls' = Append(calls,
           OverlayCall(river, options.output_vis, "tmp2_river", OVW))
    /\ \E oc \in Possible(vectors, "tmp2_river", OVW) :
        /\ vectors' = Written(vectors, "tmp2_river", oc)
        /\ writtenVect' = Written(writtenVect, "tmp2_river", oc)
        /\ IF oc = "ok"
           THEN /\ river' = "tmp2_river"
                /\ heap' = Append1(heap, "main.TMPVECT", "tmp2_river")
                /\ pc' = AfterExclusion
                /\ UNCHANGED exitcode
           ELSE /\ Raise
                /\ UNCHANGED <<river, heap>>
    /\ UNCHANGED <<entry, options, flags, env_overwrite, npoints, atexit, OVW, DEBUG,
                   area, discharge_current, string, i, info_old, region,
                   rasters, writtenRast, region_before, restored>>

(***************************************************************************)
(* main(): discharge adjustment, delegation, exit.                         *)
(***************************************************************************)
\* 'tmp_discharge=%s-%s' % (discharge_current, mfd), or
\* 'tmp_discharge=%s-%s*%s/100.0' % (discharge_current, discharge_natural,
\*                                   percentage)
DischargeOp(mode) == IF mode = "mfd" THEN "a-b" ELSE "a-b*c/100.0"

DischargeTerms(mode, current, mfd, natural, percentage) ==
    IF mode = "mfd" THEN <<current, mfd>>
    ELSE <<current, natural, percentage>>

MapcalcDischarge ==
    /\ pc = "discharge"
    /\ LET mode == DischargeMode(options.mfd, options.discharge_natural)
       IN calls' = Append(calls,
              MapcalcCall("tmp_discharge", DischargeOp(mode),
                          DischargeTerms(mode, discharge_current, options.mfd,
                                         options.discharge_natural,
                                         options.percentage),
                          OVW))
    /\ \E oc \in Possible(rasters, "tmp_discharge", OVW) :
        /\ rasters' = Written(rasters, "tmp_discharge", oc)
        /\ writtenRast' = Written(writtenRast, "tmp_discharge", oc)
        /\ IF oc = "ok"
           THEN /\ heap' = Append1(heap, "main.TMPRAST", "tmp_discharge")
                /\ discharge_current' = "tmp_discharge"
                /\ pc' = "optimal"
                /\ UNCHANGED exitcode
           ELSE /\ Raise
                /\ UNCHANGED <<heap, discharge_current>>
    /\ UNCHANGED <<entry, options, flags, env_overwrite, npoints, atexit, OVW, DEBUG,
                   river, area, string, i, info_old, region, vectors,
                   writtenVect, region_before, restored>>

\* Variant: the user's c flag is passed on.
OptimalFlagsOfUser(user_c) == IF user_c THEN "c" ELSE ""

\* The flags of the delegated call: 'c', whatever the user's c flag is.
OptimalFlags(user_c) == "c"

OptimalCall(discharge, riv) ==
    Call("r.green.hydro.optimal", OptimalFlags(flags.c),
         [discharge |-> discharge, river |-> riv,
          elevation |-> options.elevation, len_plant |-> options.len_plant,
          output_plant |-> options.output_plant,
          output_point |-> options.output_point,
          distance |-> options.distance, len_min |-> options.len_min,
          efficiency |-> options.efficiency, p_min |-> options.p_min])

\* The delegated routine gets no overwrite argument: what it may replace is
\* decided by the process-wide setting it inherits.  It writes output_plant,
\* then output_point.
Optimal ==
    /\ pc = "optimal"
    /\ calls' = Append(calls, OptimalCall(discharge_current, river))
    /\ \E oc \in Possible(vectors, options.output_plant,
               EffectiveOverwrite(OptimalCall(discharge_current, river))) :
        /\ vectors' =
              IF oc = "ok"
              THEN vectors \cup {options.output_plant, options.output_point}
              ELSE Written(vectors, options.output_plant, oc)
        /\ writtenVect' =
              IF oc = "ok"
              THEN writtenVect \cup {options.output_plant, options.output_point}
              ELSE Written(writtenVect, options.output_plant, oc)
        /\ IF oc = "ok"
           THEN pc' = "completed" /\ UNCHANGED exitcode
           ELSE Raise
    /\ UNCHANGED <<entry, options, flags, env_overwrite, npoints, heap, atexit, OVW,
                   DEBUG, river, area, discharge_current, string, i, info_old,
                   region, rasters, writtenRast, region_before, restored>>

\* print(...); main returns None; sys.exit(None)
Completed ==
    /\ pc = "completed"
    /\ pc' = "exit"
    /\ exitcode' = 0
    /\ UNCHANGED <<entry, options, flags, env_overwrite, npoints, heap, atexit, OVW,
                   DEBUG, river, area, discharge_current, string, i, info_old,
                   region, rasters, vectors, calls, writtenRast, writtenVect,
                   region_before, restored>>

\* libgreen.utils.cleanup(rast, vect, debug): unless debug, every name of the
\* list is removed from the layers of its kind.
cleanup(layers, names, debug) ==
    IF debug THEN layers ELSE layers \ Range(names)

\* The registered handler of the run (one is registered, in Start).
Handler == atexit[1]

\* Interpreter exit: the registered handler runs with the arguments bound at
\* registration; a list argument is the object, seen with its content now.
AtExit ==
    /\ pc = "exit"
    /\ rasters' = cleanup(rasters, heap[Handler.rast], Handler.debug)
    /\ vectors' = cleanup(vectors, heap[Handler.vect], Handler.debug)
    /\ pc' = "exited"
    /\ UNCHANGED <<entry, options, flags, env_overwrite, npoints, heap, atexit, OVW,
                   DEBUG, river, area, discharge_current, string, i, info_old,
                   region, calls, exitcode, writtenRast, writtenVect,
                   region_before, restored>>

Next ==
    \/ Start
    \/ RegionGuard
    \/ Buffer
    \/ Overlay1
    \/ SaveRegion
    \/ SetNewRegion
    \/ OpenVec
    \/ Viewshed
    \/ MapcalcVis
    \/ SetOldRegion
    \/ RToVect
    \/ DropRow
    \/ Overlay2
    \/ MapcalcDischarge
    \/ Optimal
    \/ Completed
    \/ AtExit

Spec == Init /\ [][Next]_vars

TypeOK ==
    /\ pc \in {"start", "region_guard", "buffer", "overlay1", "save_region",
               "set_new_region", "open_vec", "viewshed", "mapcalc_vis",
               "set_old_region", "r_to_vect", "droprow", "overlay2",
               "discharge", "optimal", "completed", "exit", "exited"}
    /\ exitcode \in {-1, 0, 1}
    /\ Len(atexit) <= 1

(***************************************************************************)
(* Properties.                                                             *)
(***************************************************************************)
CallsOf(module) == {k \in 1..Len(calls) : calls[k].module = module}

TmpRast == Range(heap["main.TMPRAST"])

TmpVect == Range(heap["main.TMPVECT"])

IntermediateRasters ==
    {"final_vis", "tmp_discharge"} \cup {VisualName(k) : k \in 0..MaxPoints}

IntermediateVectors == {"buff_area", "tmp1_river", "tmp_vis", "tmp2_river"}

DischargeCalls ==
    {k \in CallsOf("r.mapcalc") : calls[k].args.lhs = "tmp_discharge"}

OverlayCalls(output) ==
    {k \in CallsOf("v.overlay") : calls[k].args.output = output}

\* C1: the exit handler is registered once, at the start of main and before
\* any call is issued or layer written; when the process has exited (after a
\* failed call or after completion) with the d flag not set, no raster and no
\* vector named in the registry exists any more.
C1_CleanupDeletesRegistered ==
    /\ pc = "start" =>
          atexit = <<>> /\ calls = <<>> /\ writtenRast = {} /\ writtenVect = {}
    /\ pc # "start" => Len(atexit) = 1
    /\ (pc = "exited" /\ ~flags.d) =>
          TmpRast \cap rasters = {} /\ TmpVect \cap vectors = {}

C1_Witness ==
    /\ pc = "exited" /\ ~flags.d /\ exitcode = 1
    /\ "visual_0" \in TmpRast \cap writtenRast
    /\ "tmp1_river" \in TmpVect \cap writtenVect

\* C2 (as claimed): when the d flag is set, every registered raster and vector
\* this run wrote still exists after the process has exited.
C2_DebugKeepsLayers ==
    (pc = "exited" /\ flags.d) =>
        /\ (TmpRast \cap writtenRast) \subseteq rasters
        /\ (TmpVect \cap writtenVect) \subseteq vectors

\* C3: once set_old_region has run, the active region equals, in all eight
\* fields, the region that was captured before the switch to the visibility
\* resolution, and stays so for every later step.
C3_RegionRestored ==
    restored =>
        /\ \A f \in RegionFields : region[f] = region_before[f]
        /\ \A f \in RegionFields : ParseInt(info_old[f]) = region[f]

C3_Witness ==
    /\ restored
    /\ pc = "completed"
    /\ set_new_region(region_before, options.visibility_resolution)
          # region_before

\* C4 (as claimed): with an exclusion area and buffer distance 0, no v.buffer
\* call is issued, buff_area is neither written nor registered, and the
\* difference overlay gets the original area as its second input.
C4_ZeroBufferSkipped ==
    (options.area # "" /\ ParseInt(options.buff) = 0) =>
        /\ CallsOf("v.buffer") = {}
        /\ "buff_area" \notin writtenVect \cup TmpVect
        /\ \A k \in OverlayCalls("tmp1_river") :
              calls[k].args.binput = options.area

\* C5: at most one discharge raster-algebra call is issued; the delegation
\* receives tmp_discharge = current - mfd when mfd is given (also with
\* discharge_natural given), else tmp_discharge = current - natural *
\* percentage / 100 when discharge_natural is given, else the input current
\* discharge and no raster-algebra call.
C5_DischargeAdjustment ==
    /\ Cardinality(DischargeCalls) <= 1
    /\ (options.mfd = "" /\ options.discharge_natural = "") =>
          DischargeCalls = {}
    /\ \A k \in CallsOf("r.green.hydro.optimal") :
          IF options.mfd # ""
          THEN /\ calls[k].args.discharge = "tmp_discharge"
               /\ \E j \in DischargeCalls :
                     /\ j < k
                     /\ calls[j].args.op = "a-b"
                     /\ calls[j].args.terms =
                           <<options.discharge_current, options.mfd>>
          ELSE IF options.discharge_natural # ""
          THEN /\ calls[k].args.discharge = "tmp_discharge"
               /\ \E j \in DischargeCalls :
                     /\ j < k
                     /\ calls[j].args.op = "a-b*c/100.0"
                     /\ calls[j].args.terms =
                           <<options.discharge_current,
                             options.discharge_natural, options.percentage>>
          ELSE calls[k].args.discharge = options.discharge_current

C5_Witness ==
    /\ pc = "completed"
    /\ options.mfd # ""
    /\ options.discharge_natural # ""

\* C6: with no exclusion area and no viewpoints, no buffer, overlay, viewshed,
\* vectorization or filter call is issued, the only g.region call is the
\* query, the region is never changed, and the delegation gets the input
\* river.
C6_NoExclusionPassThrough ==
    (options.area = "" /\ options.points_view = "") =>
        /\ \A k \in 1..Len(calls) :
              /\ calls[k].module \notin
                    {"v.buffer", "v.overlay", "r.viewshed", "r.to.vect",
                     "v.db.droprow"}
              /\ calls[k].module = "g.region" => calls[k].flags = "m"
        /\ ~restored
        /\ \A k \in CallsOf("r.green.hydro.optimal") :
              calls[k].args.river = options.river

C6_Witness ==
    /\ pc = "completed"
    /\ options.area = ""
    /\ options.points_view = ""

\* C7 (as claimed): when a call issued after the visible-polygon filter step
\* fails, the viewed-areas vector written by this run does not exist after
\* the process has exited.
C7_NothingLeftAfterFailure ==
    (pc = "exited" /\ exitcode = 1 /\ OverlayCalls("tmp2_river") # {}) =>
        options.output_vis \notin vectors \cap writtenVect

\* C8: the filter step is issued once the vectorization has succeeded, with
\* 'cat<n_points' when n_points > 0 and 'cat=0' when n_points is 0; it never
\* has another condition.
C8_FilterCondition ==
    /\ pc = "overlay2" => CallsOf("v.db.droprow") # {}
    /\ \A k \in CallsOf("v.db.droprow") :
          LET where == calls[k].args.where
              n == ParseInt(options.n_points)
          IN /\ n > 0 => where.cond = "cat<" /\ where.value = options.n_points
             /\ n = 0 => where.cond = "cat=" /\ where.value = <<"0">>
             /\ \/ where.cond = "cat<" /\ where.value = options.n_points
                \/ where.cond = "cat=" /\ where.value = <<"0">>

C8_Witness ==
    /\ pc = "overlay2"
    /\ ParseInt(options.n_points) = 0

\* C9: the delegated call is issued at most once and is the last call of the
\* run; on a completed run it was issued exactly once, after the overlays
\* and the discharge raster algebra the options ask for, with flag c whatever
\* the user's c flag, and with the user's values of elevation, len_plant,
\* len_min, distance, efficiency, p_min, output_plant and output_point.
C9_DelegationOnce ==
    /\ Cardinality(CallsOf("r.green.hydro.optimal")) <= 1
    /\ \A k \in CallsOf("r.green.hydro.optimal") :
          /\ k = Len(calls)
          /\ calls[k].flags = "c"
          /\ \A f \in {"elevation", "len_plant", "len_min", "distance",
                       "efficiency", "p_min", "output_plant", "output_point"} :
                calls[k].args[f] = options[f]
          /\ options.area # "" => OverlayCalls("tmp1_river") # {}
          /\ options.points_view # "" => OverlayCalls("tmp2_river") # {}
          /\ (options.mfd # "" \/ options.discharge_natural # "") =>
                DischargeCalls # {}
    /\ (pc = "completed" \/ exitcode = 0) =>
          Cardinality(CallsOf("r.green.hydro.optimal")) = 1

C9_Witness ==
    /\ pc = "exited"
    /\ exitcode = 0
    /\ ~flags.c
    /\ options.area # ""
    /\ options.points_view # ""

\* C10 (as claimed): every intermediate layer a creation call has written is
\* in the registry from the moment of that call on.
C10_RegisteredWhenCreated ==
    /\ (writtenRast \cap IntermediateRasters) \subseteq TmpRast
    /\ (writtenVect \cap IntermediateVectors) \subseteq TmpVect

\* The calls that change the region: g.region with anything but a query.
RegionResets ==
    {k \in CallsOf("g.region") : "raster" \in DOMAIN calls[k].args}

RegionSwitches ==
    {k \in CallsOf("g.region") : "res" \in DOMAIN calls[k].args}

RegionRestores ==
    {k \in CallsOf("g.region") : "nsres" \in DOMAIN calls[k].args}

\* C11 (as claimed): when the region at entry has a north-south or east-west
\* resolution of zero, every buffer, overlay, viewshed, raster-algebra and
\* delegation call is preceded by the reset of the region to the elevation
\* raster.
C11_DegenerateRegionReset ==
    (entry.region.nsres = 0 \/ entry.region.ewres = 0) =>
        \A k \in 1..Len(calls) :
            calls[k].module \in
                {"v.buffer", "v.overlay", "r.viewshed", "r.mapcalc",
                 "r.green.hydro.optimal"}
            => \E j \in RegionResets : j < k

\* C12 (as claimed): when the process has exited after the region was
\* switched to the visibility resolution, the active region is the region
\* captured before the switch.
C12_RegionRestoredAtExit ==
    (pc = "exited" /\ RegionSwitches # {}) =>
        \A f \in RegionFields : region[f] = region_before[f]

ViewshedCalls == CallsOf("r.viewshed")

FinalVisCalls ==
    {k \in CallsOf("r.mapcalc") : calls[k].args.lhs = "final_vis"}

\* The order of the calls around the visibility step: the viewshed calls, one
\* per point and in the order of the points, and the sum of exactly their
\* outputs lie between the switch and the restore; what follows the
\* visibility step is issued after the restore.
VisibilityCallOrder ==
    /\ options.points_view = "" => RegionSwitches = {} /\ RegionRestores = {}
    /\ Cardinality(RegionSwitches) <= 1
    /\ Cardinality(RegionRestores) <= 1
    /\ \A r \in RegionRestores : \E sw \in RegionSwitches : sw < r
    /\ \A k \in ViewshedCalls \cup FinalVisCalls :
          /\ \E sw \in RegionSwitches : sw < k
          /\ \A r \in RegionRestores : k < r
    /\ \A k \in ViewshedCalls :
          LET nth == Cardinality({j \in ViewshedCalls : j < k})
          IN /\ calls[k].args.output = VisualName(nth)
             /\ calls[k].args.coordinates = nth
    /\ \A k \in FinalVisCalls :
          /\ Cardinality(ViewshedCalls) = npoints
          /\ \A v \in ViewshedCalls : v < k
          /\ Len(calls[k].args.terms) = npoints + 1
          /\ calls[k].args.terms[1] = "0"
          /\ \A j \in 1..npoints :
                calls[k].args.terms[j + 1] = VisualName(j - 1)
    /\ \A k \in 1..Len(calls) :
          (\/ calls[k].module \in {"r.to.vect", "v.db.droprow"}
           \/ k \in OverlayCalls("tmp2_river")
           \/ (options.points_view # "" /\ k \in DischargeCalls)
           \/ (options.points_view # ""
                 /\ calls[k].module = "r.green.hydro.optimal"))
          => \E r \in RegionRestores : r < k

\* C13 (as claimed): the calls around the visibility step are ordered as
\* above, and a run that switched the region to the visibility resolution
\* has, when the process has exited, switched it exactly once and restored it
\* exactly once.
C13_OneSwitchOneRestore ==
    /\ VisibilityCallOrder
    /\ (pc = "exited" /\ RegionSwitches # {}) =>
          /\ Cardinality(RegionSwitches) = 1
          /\ Cardinality(RegionRestores) = 1

\* C14: the visibility overlay takes tmp1_river as its first input when an
\* exclusion area is supplied too, and the input river otherwise; the
\* delegation receives tmp2_river when viewpoints are supplied (with or
\* without an area) and tmp1_river when only an area is supplied.
C14_RiverChaining ==
    /\ \A k \in OverlayCalls("tmp2_river") :
          calls[k].args.ainput =
              IF options.area # "" THEN "tmp1_river" ELSE options.river
    /\ \A k \in OverlayCalls("tmp1_river") :
          calls[k].args.ainput = options.river
    /\ \A k \in CallsOf("r.green.hydro.optimal") :
          /\ options.points_view # "" => calls[k].args.river = "tmp2_river"
          /\ (options.points_view = "" /\ options.area # "") =>
                calls[k].args.river = "tmp1_river"

C14_Witness ==
    /\ pc = "completed"
    /\ options.area # ""
    /\ options.points_view # ""
    /\ river = "tmp2_river"

CreatingModules ==
    {"v.buffer", "v.overlay", "r.viewshed", "r.mapcalc", "r.to.vect",
     "v.db.droprow", "r.green.hydro.optimal"}

C16_CleanupSparesOtherLayers ==
    pc = "exited" =>
        /\ (entry.rasters \ writtenRast) \subseteq rasters
        /\ (entry.vectors \ writtenVect) \subseteq vectors
        /\ ~env_overwrite =>
              entry.rasters \subseteq rasters /\ entry.vectors \subseteq vectors

\* C17 (as claimed): the output of the visible-polygon filter step and the
\* second input of the visibility overlay are never the empty name.
C17_FilterOutputNamed ==
    /\ \A k \in CallsOf("v.db.droprow") : calls[k].args.output # ""
    /\ \A k \in OverlayCalls("tmp2_river") : calls[k].args.binput # ""

====
